---- MODULE Spec2Model ----
(***************************************************************************)
(* Model of backend/main.py: the two completion-backed endpoints           *)
(* (review_code, rewrite_code), the event loop that runs them, and the     *)
(* text extraction they apply to the completion (parse_review_response and *)
(* the extraction cascade inside rewrite_code).                            *)
(*                                                                         *)
(* A text is a sequence of characters, each character a string.  A code    *)
(* point that is not ASCII is written as a name: "RED" is the red circle   *)
(* of the critical heading, "WRENCH" the wrench of the suggestions         *)
(* heading, and so on, and "TICK" is the backquote of a code fence; each   *)
(* is one character, as in Python's str.                                   *)
(***************************************************************************)
EXTENDS Integers, Sequences, FiniteSets, TLC

NL == "\n"

\* The characters \s matches and str.strip() removes (those the model uses).
WS == {" ", "\n", "\t"}

\* The characters \d matches.
Digits == {"0", "1", "2", "3", "4", "5", "6", "7", "8", "9"}

Letters ==
  {"a", "b", "c", "d", "e", "f", "g", "h", "i", "j", "k", "l", "m",
   "n", "o", "p", "q", "r", "s", "t", "u", "v", "w", "x", "y", "z",
   "A", "B", "C", "D", "E", "F", "G", "H", "I", "J", "K", "L", "M",
   "N", "O", "P", "Q", "R", "S", "T", "U", "V", "W", "X", "Y", "Z"}

\* The characters \w matches (the ASCII ones).
WordChars == Letters \cup Digits \cup {"_"}

Min(a, b) == IF a <= b THEN a ELSE b

Max(a, b) == IF a >= b THEN a ELSE b

Least(S) == CHOOSE i \in S : \A j \in S : i <= j

Greatest(S) == CHOOSE i \in S : \A j \in S : i >= j

(***************************************************************************)
(* Python str and re primitives, on character sequences.                   *)
(***************************************************************************)

\* The literal lit occurs in s at index i.
MatchAt(s, lit, i) ==
  /\ i >= 1
  /\ i + Len(lit) - 1 <= Len(s)
  /\ \A k \in 1..Len(lit) : s[i + k - 1] = lit[k]

\* Index of the first occurrence of lit in s at or after index from; 0 if none.
Find(s, lit, from) ==
  LET at == {i \in from..(Len(s) - Len(lit) + 1) : MatchAt(s, lit, i)}
  IN  IF at = {} THEN 0 ELSE Least(at)

\* str.strip()
strip(s) ==
  LET ink == {i \in 1..Len(s) : s[i] \notin WS}
  IN  IF ink = {} THEN <<>> ELSE SubSeq(s, Least(ink), Greatest(ink))

\* str.startswith(prefix)
startswith(s, prefix) == MatchAt(s, prefix, 1)

\* str.split('\n'): the lines of s, from index p on.
RECURSIVE SplitFrom(_, _)
SplitFrom(s, p) ==
  LET e == Find(s, <<NL>>, p)
  IN  IF e = 0 THEN <<SubSeq(s, p, Len(s))>>
      ELSE <<SubSeq(s, p, e - 1)>> \o SplitFrom(s, e + 1)

split_lines(s) == SplitFrom(s, 1)

\* ^ under re.MULTILINE: the start of the text or just after a newline.
LineStart(s, p) == p = 1 \/ (p >= 2 /\ p <= Len(s) + 1 /\ s[p - 1] = NL)

\* Where a greedy \s* starting at p stops: the first index at or after p that
\* holds no whitespace (Len(s) + 1 when the rest is whitespace).
RECURSIVE SkipWS(_, _)
SkipWS(s, p) == IF p <= Len(s) /\ s[p] \in WS THEN SkipWS(s, p + 1) ELSE p

\* Where a greedy \d* starting at p stops.
RECURSIVE SkipDigits(_, _)
SkipDigits(s, p) == IF p <= Len(s) /\ s[p] \in Digits THEN SkipDigits(s, p + 1) ELSE p

\* Where a greedy [\w]* starting at p stops.
RECURSIVE SkipWord(_, _)
SkipWord(s, p) == IF p <= Len(s) /\ s[p] \in WordChars THEN SkipWord(s, p + 1) ELSE p

\* r'^\s*[-*]\s' (re.MULTILINE) matched at p: the index of the last character
\* of the match, 0 if there is no match at p.  \s* gives nothing back: what
\* follows it is no whitespace.
BulletMarkerEnd(s, p) ==
  IF ~LineStart(s, p) THEN 0
  ELSE LET q == SkipWS(s, p)
       IN  IF q + 1 <= Len(s) /\ s[q] \in {"-", "*"} /\ s[q + 1] \in WS
           THEN q + 1 ELSE 0

\* r'^\s*\d+\.\s' (re.MULTILINE) matched at p, likewise.
NumberMarkerEnd(s, p) ==
  IF ~LineStart(s, p) THEN 0
  ELSE LET q == SkipWS(s, p)
           d == SkipDigits(s, q)
       IN  IF d > q /\ d + 1 <= Len(s) /\ s[d] = "." /\ s[d + 1] \in WS
           THEN d + 1 ELSE 0

\* The first index at or after p where r'^\s*[-*]\s' matches; 0 if none.
NextBulletMarker(s, p) ==
  LET at == {q \in p..Len(s) : BulletMarkerEnd(s, q) # 0}
  IN  IF at = {} THEN 0 ELSE Least(at)

\* len(re.findall(r'^\s*[-*]\s', s, re.MULTILINE)), scanning from p: the
\* matches do not overlap, the scan resumes after each.
RECURSIVE CountBulletMarkers(_, _)
CountBulletMarkers(s, p) ==
  LET q == NextBulletMarker(s, p)
  IN  IF q = 0 THEN 0 ELSE 1 + CountBulletMarkers(s, BulletMarkerEnd(s, q) + 1)

\* A regular expression's match object, and None.
NoMatch == [matched |-> FALSE, group |-> <<>>]

MatchOf(g) == [matched |-> TRUE, group |-> g]

\* re.search(heading + r'.*?(?=' + stop + r'|\Z)', text, re.DOTALL): the first
\* occurrence of the heading, lazily extended to just before the first
\* occurrence of stop after it, or to the end of the text.
SearchSection(text, heading, stop) ==
  LET i == Find(text, heading, 1)
  IN  IF i = 0 THEN NoMatch
      ELSE LET e == Find(text, stop, i + Len(heading))
           IN  MatchOf(SubSeq(text, i, IF e = 0 THEN Len(text) ELSE e - 1))

(***************************************************************************)
(* parse_review_response                                                   *)
(***************************************************************************)

CriticalHeading ==
  <<"#", "#", "#", " ", "RED", " ", "C", "r", "i", "t", "i", "c", "a", "l",
    " ", "I", "s", "s", "u", "e", "s">>

HighHeading ==
  <<"#", "#", "#", " ", "ORANGE", " ", "H", "i", "g", "h", " ",
    "P", "r", "i", "o", "r", "i", "t", "y">>

MediumHeading ==
  <<"#", "#", "#", " ", "YELLOW", " ", "M", "e", "d", "i", "u", "m", " ",
    "P", "r", "i", "o", "r", "i", "t", "y">>

LowHeading ==
  <<"#", "#", "#", " ", "GREEN", " ", "L", "o", "w", " ",
    "P", "r", "i", "o", "r", "i", "t", "y">>

SuggestionHeading ==
  <<"#", "#", " ", "WRENCH", " ", "S", "u", "g", "g", "e", "s", "t", "e", "d",
    " ", "I", "m", "p", "r", "o", "v", "e", "m", "e", "n", "t", "s">>

Severities == {"critical", "high", "medium", "low"}

SeverityHeading(sev) ==
  CASE sev = "critical" -> CriticalHeading
    [] sev = "high" -> HighHeading
    [] sev = "medium" -> MediumHeading
    [] sev = "low" -> LowHeading

\* critical_section, high_section, medium_section, low_section
severity_section(review_text, sev) ==
  SearchSection(review_text, SeverityHeading(sev), <<"#", "#", "#">>)

\* len(re.findall(r'^\s*[-*]\s', section_text, re.MULTILINE))
bullet_count(section_text) == CountBulletMarkers(section_text, 1)

\* len([p for p in section_text.split('\n')
\*      if p.strip() and not p.strip().startswith('#')])
proxy_count(section_text) ==
  LET lines == split_lines(section_text)
  IN  Cardinality({i \in 1..Len(lines) :
        strip(lines[i]) # <<>> /\ ~startswith(strip(lines[i]), <<"#">>)})

\* critical_count, ..., low_count after the four if-blocks.
severity_count(review_text, sev) ==
  LET section == severity_section(review_text, sev)
  IN  IF ~section.matched THEN 0
      ELSE LET n == bullet_count(section.group)
           IN  IF n = 0 THEN proxy_count(section.group) ELSE n

\* severity_breakdown[sev] with the count taken as it is (no max(count, 1)).
severity_breakdown_uncoerced(review_text, sev) == severity_count(review_text, sev)

\* severity_breakdown[sev]
severity_breakdown(review_text, sev) ==
  IF severity_section(review_text, sev).matched
  THEN Max(severity_count(review_text, sev), 1)
  ELSE 0

\* The marker of re.split's pattern r'^\s*\d+\.\s|^\s*[-*]\s' (re.MULTILINE)
\* matched at p: the index of its last character, 0 if there is no match at p.
ListMarkerEnd(s, p) ==
  LET n == NumberMarkerEnd(s, p)
  IN  IF n # 0 THEN n ELSE BulletMarkerEnd(s, p)

\* The first index at or after p where the list marker matches; 0 if none.
NextListMarker(s, p) ==
  LET at == {q \in p..Len(s) : ListMarkerEnd(s, q) # 0}
  IN  IF at = {} THEN 0 ELSE Least(at)

\* re.split(r'^\s*\d+\.\s|^\s*[-*]\s', s, flags=re.MULTILINE): the pieces of s
\* between the markers, from index p on.
RECURSIVE SplitMarkers(_, _)
SplitMarkers(s, p) ==
  LET q == NextListMarker(s, p)
  IN  IF q = 0 THEN <<SubSeq(s, p, Len(s))>>
      ELSE <<SubSeq(s, p, q - 1)>> \o SplitMarkers(s, ListMarkerEnd(s, q) + 1)

\* suggestion_section
suggestion_section(review_text) ==
  SearchSection(review_text, SuggestionHeading, <<"#", "#">>)

\* suggestion_items
suggestion_items(review_text) ==
  LET section == suggestion_section(review_text)
  IN  IF section.matched THEN SplitMarkers(section.group, 1) ELSE <<>>

MinSuggestionLen == 20

MaxDescriptionLen == 200

MaxSuggestions == 10

Ellipsis == <<".", ".", ".">>

\* if len(item_clean) >= 20
keeps_suggestion_from_20(item) == Len(strip(item)) >= MinSuggestionLen

\* if len(item_clean) > 20
keeps_suggestion(item) == Len(strip(item)) > MinSuggestionLen

\* item_clean[:200] + "..." if len(item_clean) > 200 else item_clean
description(item) ==
  LET item_clean == strip(item)
  IN  IF Len(item_clean) > MaxDescriptionLen
      THEN SubSeq(item_clean, 1, MaxDescriptionLen) \o Ellipsis
      ELSE item_clean

\* suggestions, as the for loop over suggestion_items[1:] leaves it
collected_suggestions(review_text) ==
  LET items == suggestion_items(review_text)
      kept == IF items = <<>> THEN <<>> ELSE SelectSeq(Tail(items), keeps_suggestion)
  IN  [i \in 1..Len(kept) |-> [description |-> description(kept[i])]]

\* suggestions[:10]
first_suggestions(all) == SubSeq(all, 1, Min(MaxSuggestions, Len(all)))

\* total_issues
total_issues(review_text) ==
  severity_breakdown(review_text, "critical") + severity_breakdown(review_text, "high")
    + severity_breakdown(review_text, "medium") + severity_breakdown(review_text, "low")

parse_review_response(review_text) ==
  [issues_found |-> total_issues(review_text),
   severity_breakdown |-> [sev \in Severities |-> severity_breakdown(review_text, sev)],
   suggestions |-> first_suggestions(collected_suggestions(review_text))]

(***************************************************************************)
(* The extraction in rewrite_code                                          *)
(***************************************************************************)

Fence == <<"TICK", "TICK", "TICK">>

ClosingFence == <<NL, "TICK", "TICK", "TICK">>

RewrittenCodeHeading ==
  <<"#", "#", " ", "SPARKLES", " ", "R", "e", "w", "r", "i", "t", "t", "e",
    "n", " ", "C", "o", "d", "e">>

ExplanationHeading ==
  <<"#", "#", " ", "MEMO", " ", "E", "x", "p", "l", "a", "n", "a", "t",
    "i", "o", "n">>

ImprovementsHeading ==
  <<"#", "#", " ", "TARGET", " ", "K", "e", "y", " ", "I", "m", "p", "r",
    "o", "v", "e", "m", "e", "n", "t", "s">>

CouldNotExtract ==
  <<"#", " ", "C", "o", "u", "l", "d", " ", "n", "o", "t", " ", "e", "x",
    "t", "r", "a", "c", "t", " ", "r", "e", "w", "r", "i", "t", "t", "e",
    "n", " ", "c", "o", "d", "e", ".", " ", "H", "e", "r", "e", "'", "s",
    " ", "t", "h", "e", " ", "f", "u", "l", "l", " ", "r", "e", "s", "p",
    "o", "n", "s", "e", ":", NL, NL>>

DefaultExplanation ==
  <<"C", "o", "d", "e", " ", "h", "a", "s", " ", "b", "e", "e", "n", " ",
    "r", "e", "w", "r", "i", "t", "t", "e", "n", " ", "w", "i", "t", "h",
    " ", "i", "m", "p", "r", "o", "v", "e", "m", "e", "n", "t", "s", ".">>

DefaultImprovements ==
  <<
    <<"C", "o", "d", "e", " ", "r", "e", "f", "a", "c", "t", "o", "r", "e",
      "d", " ", "f", "o", "r", " ", "b", "e", "t", "t", "e", "r", " ", "q",
      "u", "a", "l", "i", "t", "y">>,
    <<"E", "r", "r", "o", "r", " ", "h", "a", "n", "d", "l", "i", "n", "g",
      " ", "i", "m", "p", "r", "o", "v", "e", "d">>,
    <<"P", "e", "r", "f", "o", "r", "m", "a", "n", "c", "e", " ", "o", "p",
      "t", "i", "m", "i", "z", "e", "d">>,
    <<"B", "e", "s", "t", " ", "p", "r", "a", "c", "t", "i", "c", "e", "s",
      " ", "a", "p", "p", "l", "i", "e", "d">>
  >>

MaxImprovements == 5

NoBlock == [matched |-> FALSE, group |-> <<>>, last |-> 0]

\* r'TICK{3}[\w]*\n(.*?)\nTICK{3}' (tagged) or r'TICK{3}\n(.*?)\nTICK{3}' (not tagged), under
\* re.DOTALL, matched at index i: group(1) and the index of the match's last
\* character.  [\w]* gives nothing back (a newline must follow it); the lazy
\* body ends at the first newline-and-fence after the opening line.
FencedBlockAt(text, i, tagged) ==
  IF ~MatchAt(text, Fence, i) THEN NoBlock
  ELSE LET j == IF tagged THEN SkipWord(text, i + 3) ELSE i + 3
       IN  IF j > Len(text) \/ text[j] # NL THEN NoBlock
           ELSE LET e == Find(text, ClosingFence, j + 1)
                IN  IF e = 0 THEN NoBlock
                    ELSE [matched |-> TRUE, group |-> SubSeq(text, j + 1, e - 1),
                          last |-> e + 3]

\* re.search of the fenced-block pattern from index from on: the leftmost match.
SearchBlock(text, from, tagged) ==
  LET at == {i \in from..Len(text) : FencedBlockAt(text, i, tagged).matched}
  IN  IF at = {} THEN NoBlock ELSE FencedBlockAt(text, Least(at), tagged)

\* re.search(r'## SPARKLES Rewritten Code\nTICK{3}[\w]*\n(.*?)\nTICK{3}', text, re.DOTALL)
SearchBlockAfterHeading(text) ==
  LET h == RewrittenCodeHeading \o <<NL>>
      at == {i \in 1..Len(text) :
               MatchAt(text, h, i) /\ FencedBlockAt(text, i + Len(h), TRUE).matched}
  IN  IF at = {} THEN NoBlock ELSE FencedBlockAt(text, Least(at) + Len(h), TRUE)

\* re.findall(r'TICK{3}[\w]*\n(.*?)\nTICK{3}', text, re.DOTALL), from index p on.
RECURSIVE FindAllBlocks(_, _)
FindAllBlocks(text, p) ==
  LET m == SearchBlock(text, p, TRUE)
  IN  IF ~m.matched THEN <<>> ELSE <<m.group>> \o FindAllBlocks(text, m.last + 1)

\* max(all_code_blocks, key=len): the first of the longest.
longest_block(all_code_blocks) ==
  all_code_blocks[Least({i \in 1..Len(all_code_blocks) :
    \A j \in 1..Len(all_code_blocks) : Len(all_code_blocks[i]) >= Len(all_code_blocks[j])})]

\* rewritten_code is None (<<>>) or a string (<<string>>); "not rewritten_code"
\* holds of None and of the empty string.
None == <<>>

Some(x) == <<x>>

falsy(rewritten_code) == rewritten_code = None \/ rewritten_code[1] = <<>>

\* rewritten_code set to the longest block from the start.
after_pattern1_longest(rewrite_text) ==
  LET all_code_blocks == FindAllBlocks(rewrite_text, 1)
  IN  IF all_code_blocks # <<>> THEN Some(strip(longest_block(all_code_blocks))) ELSE None

\* rewritten_code after "Try pattern 1"
after_pattern1(rewrite_text) ==
  LET code_match == SearchBlock(rewrite_text, 1, TRUE)
  IN  IF code_match.matched THEN Some(strip(code_match.group)) ELSE None

\* rewritten_code after "Try pattern 2"
after_pattern2(rewrite_text) ==
  LET before == after_pattern1(rewrite_text)
      code_match == SearchBlock(rewrite_text, 1, FALSE)
  IN  IF falsy(before) /\ code_match.matched THEN Some(strip(code_match.group))
      ELSE before

\* rewritten_code after "Try pattern 3"
after_pattern3(rewrite_text) ==
  LET before == after_pattern2(rewrite_text)
      code_match == SearchBlockAfterHeading(rewrite_text)
  IN  IF falsy(before) /\ code_match.matched THEN Some(strip(code_match.group))
      ELSE before

\* rewritten_code after "extract the largest code block"
after_largest_block(rewrite_text) ==
  LET before == after_pattern3(rewrite_text)
      all_code_blocks == FindAllBlocks(rewrite_text, 1)
  IN  IF falsy(before) /\ all_code_blocks # <<>>
      THEN Some(strip(longest_block(all_code_blocks)))
      ELSE before

\* rewritten_code after the fallback
rewritten_code(rewrite_text) ==
  LET before == after_largest_block(rewrite_text)
  IN  IF falsy(before) THEN CouldNotExtract \o rewrite_text ELSE before[1]

\* re.search(heading + r'\n(.*?)(?=##|\Z)', text, re.DOTALL): group(1)
SearchAfterHeading(text, heading) ==
  LET h == heading \o <<NL>>
      i == Find(text, h, 1)
  IN  IF i = 0 THEN NoMatch
      ELSE LET e == Find(text, <<"#", "#">>, i + Len(h))
           IN  MatchOf(SubSeq(text, i + Len(h), IF e = 0 THEN Len(text) ELSE e - 1))

explanation(rewrite_text) ==
  LET explanation_match == SearchAfterHeading(rewrite_text, ExplanationHeading)
  IN  IF explanation_match.matched THEN strip(explanation_match.group)
      ELSE DefaultExplanation

\* re.findall(r'- (.*?)(?:\n|$)', s), from index p on: each "- " wherever it
\* stands, with the rest of its line.
RECURSIVE FindAllDashItems(_, _)
FindAllDashItems(s, p) ==
  LET i == Find(s, <<"-", " ">>, p)
  IN  IF i = 0 THEN <<>>
      ELSE LET e == Find(s, <<NL>>, i + 2)
           IN  IF e = 0 THEN <<SubSeq(s, i + 2, Len(s))>>
               ELSE <<SubSeq(s, i + 2, e - 1)>> \o FindAllDashItems(s, e + 1)

\* improvement_items
improvement_items(rewrite_text) ==
  LET improvements_match == SearchAfterHeading(rewrite_text, ImprovementsHeading)
  IN  IF improvements_match.matched THEN FindAllDashItems(improvements_match.group, 1)
      ELSE <<>>

nonblank(item) == strip(item) # <<>>

\* [item.strip() for item in improvement_items if item.strip()][:5]
first_improvements(improvement_items_) ==
  LET kept == SelectSeq(improvement_items_, nonblank)
      n == Min(MaxImprovements, Len(kept))
  IN  [i \in 1..n |-> strip(kept[i])]

improvements(rewrite_text) ==
  LET found == first_improvements(improvement_items(rewrite_text))
  IN  IF found = <<>> THEN DefaultImprovements ELSE found

\* CodeRewriteResponse's extracted fields
extract_rewrite(rewrite_text) ==
  [rewritten_code |-> rewritten_code(rewrite_text),
   explanation |-> explanation(rewrite_text),
   improvements |-> improvements(rewrite_text)]

(***************************************************************************)
(* Completion texts                                                        *)
(***************************************************************************)

\* '\n'.join(lines)
RECURSIVE JoinLines(_)
JoinLines(lines) ==
  IF lines = <<>> THEN <<>>
  ELSE IF Len(lines) = 1 THEN lines[1]
  ELSE lines[1] \o <<NL>> \o JoinLines(Tail(lines))

\* n times the character c
Run(c, n) == [i \in 1..n |-> c]

\* n times the line
Repeat(line, n) == [i \in 1..n |-> line]

StrengthsHeading ==
  <<"#", "#", " ", "CHECK", " ", "S", "t", "r", "e", "n", "g", "t", "h",
    "s">>

MustFix ==
  <<" ", "(", "M", "u", "s", "t", " ", "F", "i", "x", ")">>

Bullet == <<"-", " ", "a">>

StarBullet == <<"*", " ", "b">>

IndentedBullet == <<" ", " ", "-", " ", "c">>

Prose == <<"o", "k">>

Blank == <<>>

\* The heading line of a severity section as the prompt words it.
SeverityHeadingLine(sev) ==
  IF sev = "critical" THEN CriticalHeading \o MustFix ELSE SeverityHeading(sev)

\* The most bullets a generated severity section holds.
MaxBullets == 2

\* k bulleted lines, the three ways of writing one in turn.
BulletLines(k) ==
  [i \in 1..k |-> IF i % 3 = 1 THEN Bullet
                  ELSE IF i % 3 = 2 THEN StarBullet ELSE IndentedBullet]

\* The bodies of a generated severity section.
SectionBodies ==
  {BulletLines(k) : k \in 0..MaxBullets} \cup {<<Blank>>, <<Prose>>}

\* A generated severity section: absent, or its heading line and a body.
SectionChoices(sev) ==
  {<<>>} \cup {<<SeverityHeadingLine(sev)>> \o body : body \in SectionBodies}

\* What a generated review holds after the severity sections.
ReviewTails ==
  {<<>>,
   <<StrengthsHeading, Bullet, StarBullet>>,
   <<SuggestionHeading, <<"1", ".", " ">> \o Run("x", 21)>>}

\* Reviews that follow the prompt's layout, each severity section present or
\* not, with a generated body.
SeverityTexts ==
  {JoinLines(c \o h \o m \o l \o t) :
     c \in SectionChoices("critical"), h \in SectionChoices("high"),
     m \in SectionChoices("medium"), l \in SectionChoices("low"),
     t \in ReviewTails}

\* The most items a generated suggestions section holds beside the special one.
MaxItems == 11

NumberedItem(n) == <<"1", ".", " ">> \o Run("x", n)

\* The item of a generated suggestions section that differs from the rest.
SpecialItems ==
  {<<>>,
   <<NumberedItem(20)>>,
   <<NumberedItem(200)>>,
   <<NumberedItem(201)>>,
   <<NumberedItem(20), NumberedItem(201), NumberedItem(200)>>,
   <<<<"-", " ">> \o Run("y", 12), Run("y", 12)>>,
   <<Prose, <<"2", ".">>, Blank>>}

\* Reviews with a suggestions section: an introduction, then k items of 21
\* characters with one special item after the first j of them.
SuggestionTexts ==
  {JoinLines(<<SuggestionHeading, Prose>> \o Repeat(NumberedItem(21), j) \o sp
               \o Repeat(NumberedItem(21), k - j)) :
     <<k, j>> \in {kj \in (0..MaxItems) \X (0..MaxItems) : kj[2] <= kj[1]},
     sp \in SpecialItems}
  \cup
  {JoinLines(<<LowHeading, Bullet, SuggestionHeading>> \o Repeat(NumberedItem(30), 2)
               \o tail) :
     tail \in {<<>>, <<StrengthsHeading, NumberedItem(30)>>,
               <<LowHeading, NumberedItem(30)>>}}

ReviewTexts == SeverityTexts \cup SuggestionTexts

\* The opening line of a fenced block tagged python.
PythonFence == Fence \o <<"p", "y", "t", "h", "o", "n">>

\* The bodies of a generated fenced block, as lines: code, indented code, an
\* empty body, a body of spaces, two lines of code.
CodeBodies ==
  {<<<<"x", "=", "1">>>>,
   <<<<" ", " ", "y">>>>,
   <<Blank>>,
   <<Run(" ", 4)>>,
   <<<<"x", "=", "1">>, <<"y", "=", "2", "2">>>>}

\* A fenced block: its opening line, its body, its closing fence.
FencedBlock(opening, body) == <<opening>> \o body \o <<Fence>>

\* What a generated rewrite holds after its code.
RewriteTails ==
  {<<>>, <<ExplanationHeading, Prose, ImprovementsHeading, Bullet>>}

\* Rewrites with two fenced blocks that carry no language tag.
TwoBlockTexts ==
  {JoinLines(pre \o FencedBlock(Fence, b1) \o mid \o FencedBlock(Fence, b2) \o post) :
     pre \in {<<>>, <<RewrittenCodeHeading>>},
     b1 \in CodeBodies,
     mid \in {<<>>, <<RewrittenCodeHeading>>, <<Prose>>},
     b2 \in CodeBodies,
     post \in RewriteTails}

\* Rewrites with one fenced block, tagged python or not tagged, and with none.
OneBlockTexts ==
  {JoinLines(pre \o FencedBlock(opening, b) \o post) :
     pre \in {<<>>, <<RewrittenCodeHeading>>, <<Prose>>},
     opening \in {PythonFence, Fence},
     b \in CodeBodies,
     post \in RewriteTails}
  \cup {JoinLines(post) : post \in RewriteTails}

\* The i-th bullet of a generated improvements section.
ItemLine(i) == <<"-", " ", "i", "t", "e", "m", CHOOSE d \in Digits : d = ToString(i % 10)>>

SecondLevelHeading ==
  <<"#", "#", " ", "N", "o", "t", "e", "s">>

\* The lines a generated improvements section is made of: a bullet, an
\* indented bullet with a trailing space, prose with a dash in it, a starred
\* line, a bullet with nothing after it, prose, and a heading.
ImprovementLines ==
  {<<"-", " ", "u">>,
   <<" ", " ", "-", " ", "v", " ">>,
   <<"w", " ", "-", " ", "z">>,
   <<"*", " ", "b">>,
   <<"-", " ">>,
   Prose,
   SecondLevelHeading}

\* The most lines of a generated improvements section made of ImprovementLines.
MaxImprovementLines == 2

\* The most bullets of a generated improvements section made of bullets.
MaxImprovementBullets == 6

RECURSIVE LineSeqs(_, _)
LineSeqs(kinds, n) ==
  IF n = 0 THEN {<<>>}
  ELSE LET shorter == LineSeqs(kinds, n - 1)
       IN  shorter \cup {ls \o <<k>> : ls \in {x \in shorter : Len(x) = n - 1}, k \in kinds}

\* Rewrites with an improvements section.
ImprovementTexts ==
  {JoinLines(<<ImprovementsHeading>> \o ls) :
     ls \in LineSeqs(ImprovementLines, MaxImprovementLines)}
  \cup
  {JoinLines(<<ImprovementsHeading>> \o [i \in 1..k |-> ItemLine(i)] \o tail) :
     k \in 0..MaxImprovementBullets,
     tail \in {<<>>, <<SecondLevelHeading, Bullet>>}}

RewriteTexts == TwoBlockTexts \cup OneBlockTexts \cup ImprovementTexts

(***************************************************************************)
(* The endpoints and the event loop                                        *)
(***************************************************************************)

\* The number of requests clients post.
NumRequests == 2

Requests == 1..NumRequests

\* request.code of the requests clients post.
Codes == {<<>>, <<" ", NL, "\t">>, <<"x", "=", "1">>, <<" ", "x", NL>>}

\* str(e) of the exceptions the completion call raises.
UpstreamErrors == {"Connection error.", "Rate limit reached"}

\* str(e) of the TypeError len(None) raises (message.content is None).
NoneHasNoLen == "object of type 'NoneType' has no len()"

NoRequest == [endpoint |-> "none", code |-> <<>>]

NoCompletion == [ok |-> FALSE, content |-> None, error |-> "none"]

NoResponse == [status |-> 0, detail |-> <<>>, body |-> <<>>]

VARIABLES
  request,     \* request[r]: the endpoint r is posted to and its code
  pc,          \* pc[r]: "unsent", "queued", "calling", "returned" or "done"
  loop,        \* the request whose handler the event loop is running, 0 if none
  calls,       \* calls[r]: the completion calls r's handler has issued
  completion,  \* completion[r]: what the completion call gave r's handler
  response     \* response[r]: the HTTP response to r

vars == <<request, pc, loop, calls, completion, response>>

\* raise HTTPException(status_code=..., detail=...)
HTTPException(status_code, detail) ==
  [status |-> status_code, detail |-> detail, body |-> <<>>]

\* A response_model returned by a handler: HTTP 200.
Returned(body) == [status |-> 200, detail |-> <<>>, body |-> <<body>>]

\* not request.code
code_is_empty_unstripped(code) == code = <<>>

\* not request.code.strip()
code_is_empty(code) == strip(code) = <<>>

\* CodeReviewResponse(review=review_text, issues_found=..., ...)
CodeReviewResponse(review_text) ==
  LET parsed_data == parse_review_response(review_text)
  IN  [review |-> review_text,
       issues_found |-> parsed_data.issues_found,
       severity_breakdown |-> parsed_data.severity_breakdown,
       suggestions |-> parsed_data.suggestions]

\* CodeRewriteResponse(original_code=request.code, rewritten_code=..., ...)
CodeRewriteResponse(code, rewrite_text) ==
  [original_code |-> code,
   rewritten_code |-> rewritten_code(rewrite_text),
   explanation |-> explanation(rewrite_text),
   improvements |-> improvements(rewrite_text)]

Init ==
  /\ request = [r \in Requests |-> NoRequest]
  /\ pc = [r \in Requests |-> "unsent"]
  /\ loop = 0
  /\ calls = [r \in Requests |-> 0]
  /\ completion = [r \in Requests |-> NoCompletion]
  /\ response = [r \in Requests |-> NoResponse]

\* A client posts request r.
Post(r) ==
  /\ pc[r] = "unsent"
  /\ \E endpoint \in {"review", "rewrite"}, code \in Codes :
       request' = [request EXCEPT ![r] = [endpoint |-> endpoint, code |-> code]]
  /\ pc' = [pc EXCEPT ![r] = "queued"]
  /\ UNCHANGED <<loop, calls, completion, response>>

\* The event loop starts the handler of r; the handler validates the code and,
\* the code not being empty, issues the completion call.  The call is the
\* synchronous client's, made with no await: the handler keeps the event loop
\* until the call returns or raises.
handler_begin(r, endpoint) ==
  /\ pc[r] = "queued"
  /\ request[r].endpoint = endpoint
  /\ loop = 0
  /\ IF code_is_empty(request[r].code)
     THEN /\ response' = [response EXCEPT
                 ![r] = HTTPException(400, <<"Code cannot be empty">>)]
          /\ pc' = [pc EXCEPT ![r] = "done"]
          /\ UNCHANGED <<loop, calls>>
     ELSE /\ calls' = [calls EXCEPT ![r] = @ + 1]
          /\ pc' = [pc EXCEPT ![r] = "calling"]
          /\ loop' = r
          /\ UNCHANGED response
  /\ UNCHANGED <<request, completion>>

review_code_begin(r) == handler_begin(r, "review")

rewrite_code_begin(r) == handler_begin(r, "rewrite")

\* client.chat.completions.create(...) returns: message.content is one of
\* contents (a text, or None).
completion_returns(r, contents) ==
  /\ pc[r] = "calling"
  /\ \E content \in contents :
       completion' = [completion EXCEPT
         ![r] = [ok |-> TRUE, content |-> content, error |-> "none"]]
  /\ pc' = [pc EXCEPT ![r] = "returned"]
  /\ UNCHANGED <<request, loop, calls, response>>

\* client.chat.completions.create(...) raises.
completion_raises(r) ==
  /\ pc[r] = "calling"
  /\ \E e \in UpstreamErrors :
       completion' = [completion EXCEPT
         ![r] = [ok |-> FALSE, content |-> None, error |-> e]]
  /\ pc' = [pc EXCEPT ![r] = "returned"]
  /\ UNCHANGED <<request, loop, calls, response>>

\* review_code with the except block giving an empty review back.
review_code_response_swallowing(c) ==
  IF ~c.ok \/ c.content = None
  THEN Returned([review |-> <<>>, issues_found |-> 0,
                 severity_breakdown |-> [sev \in Severities |-> 0],
                 suggestions |-> <<>>])
  ELSE Returned(CodeReviewResponse(c.content[1]))

\* The response review_code ends with, the call having given c.
review_code_response(c) ==
  IF ~c.ok
  THEN HTTPException(500, <<"Error during code review: ", c.error>>)
  ELSE IF c.content = None
  THEN HTTPException(500, <<"Error during code review: ", NoneHasNoLen>>)
  ELSE Returned(CodeReviewResponse(c.content[1]))

\* The response rewrite_code ends with, the call having given c.
rewrite_code_response(code, c) ==
  IF ~c.ok
  THEN HTTPException(500, <<"Error during code rewrite: ", c.error>>)
  ELSE IF c.content = None
  THEN HTTPException(500, <<"Error during code rewrite: ", NoneHasNoLen>>)
  ELSE Returned(CodeRewriteResponse(code, c.content[1]))

\* The rest of review_code: the try block after the call, or its except.
review_code_end(r) ==
  /\ pc[r] = "returned"
  /\ request[r].endpoint = "review"
  /\ response' = [response EXCEPT ![r] = review_code_response(completion[r])]
  /\ pc' = [pc EXCEPT ![r] = "done"]
  /\ loop' = 0
  /\ UNCHANGED <<request, calls, completion>>

\* The rest of rewrite_code: the try block after the call, or its except.
rewrite_code_end(r) ==
  /\ pc[r] = "returned"
  /\ request[r].endpoint = "rewrite"
  /\ response' = [response EXCEPT
       ![r] = rewrite_code_response(request[r].code, completion[r])]
  /\ pc' = [pc EXCEPT ![r] = "done"]
  /\ loop' = 0
  /\ UNCHANGED <<request, calls, completion>>

\* The texts the completion gives in Spec: a review and a rewrite that follow
\* the prompt's layout, and the empty text.
SampleReview ==
  JoinLines(<<SeverityHeadingLine("critical"), Bullet, SeverityHeadingLine("low"),
              StrengthsHeading, Prose, SuggestionHeading, NumberedItem(21)>>)

SampleRewrite ==
  JoinLines(<<RewrittenCodeHeading>> \o FencedBlock(PythonFence, <<<<"x", "=", "1">>>>)
              \o <<ExplanationHeading, Prose, ImprovementsHeading, Bullet>>)

\* message.content of the completions in Spec, by endpoint.
SampleContents(endpoint) ==
  IF endpoint = "review" THEN {Some(SampleReview), Some(<<>>), None}
  ELSE {Some(SampleRewrite), Some(<<>>), None}

Next ==
  \E r \in Requests :
    \/ Post(r)
    \/ review_code_begin(r)
    \/ rewrite_code_begin(r)
    \/ completion_returns(r, SampleContents(request[r].endpoint))
    \/ completion_raises(r)
    \/ review_code_end(r)
    \/ rewrite_code_end(r)

Spec == Init /\ [][Next]_vars

\* One review request, posted; the completion gives any of ReviewTexts.
InitReview ==
  /\ request = [r \in Requests |->
       IF r = 1 THEN [endpoint |-> "review", code |-> <<"x", "=", "1">>] ELSE NoRequest]
  /\ pc = [r \in Requests |-> IF r = 1 THEN "queued" ELSE "unsent"]
  /\ loop = 0
  /\ calls = [r \in Requests |-> 0]
  /\ completion = [r \in Requests |-> NoCompletion]
  /\ response = [r \in Requests |-> NoResponse]

NextReview ==
  \/ review_code_begin(1)
  \/ completion_returns(1, {Some(t) : t \in ReviewTexts})
  \/ review_code_end(1)

SpecReview == InitReview /\ [][NextReview]_vars

\* One rewrite request, posted; the completion gives any of RewriteTexts.
InitRewrite ==
  /\ request = [r \in Requests |->
       IF r = 1 THEN [endpoint |-> "rewrite", code |-> <<"x", "=", "1">>] ELSE NoRequest]
  /\ pc = [r \in Requests |-> IF r = 1 THEN "queued" ELSE "unsent"]
  /\ loop = 0
  /\ calls = [r \in Requests |-> 0]
  /\ completion = [r \in Requests |-> NoCompletion]
  /\ response = [r \in Requests |-> NoResponse]

NextRewrite ==
  \/ rewrite_code_begin(1)
  \/ completion_returns(1, {Some(t) : t \in RewriteTexts})
  \/ rewrite_code_end(1)

SpecRewrite == InitRewrite /\ [][NextRewrite]_vars

(***************************************************************************)
(* What the claims speak of                                                *)
(***************************************************************************)

\* Every character of the code is whitespace (the empty code included).
OnlyWhitespace(code) == \A i \in 1..Len(code) : code[i] \in WS

Occurs(text, lit) == \E i \in 1..Len(text) : MatchAt(text, lit, i)

\* Request r was answered with a review, a rewrite.
Reviewed(r) ==
  pc[r] = "done" /\ request[r].endpoint = "review" /\ response[r].status = 200

Rewritten(r) ==
  pc[r] = "done" /\ request[r].endpoint = "rewrite" /\ response[r].status = 200

\* The completion's text that r's response was made from, and the response.
TextOf(r) == completion[r].content[1]

BodyOf(r) == response[r].body[1]

\* The number of # a line opens with when it is a heading (# ... then a space
\* or the end of the line); 0 when it is none.
HeadingLevel(line) ==
  LET non == {i \in 1..Len(line) : line[i] # "#"}
      k == IF non = {} THEN Len(line) ELSE Least(non) - 1
  IN  IF k >= 1 /\ (k = Len(line) \/ line[k + 1] = " ") THEN k ELSE 0

\* The line opens with a bullet marker: after its leading whitespace, - or *
\* and then whitespace.
IsBulleted(line) ==
  LET q == SkipWS(line, 1)
  IN  q + 1 <= Len(line) /\ line[q] \in {"-", "*"} /\ line[q + 1] \in WS

\* The index of the first line that opens with the heading; 0 if none.
HeadingLine(lines, heading) ==
  LET at == {i \in 1..Len(lines) : startswith(lines[i], heading)}
  IN  IF at = {} THEN 0 ELSE Least(at)

\* The indexes of the lines of the section under line h: those after h and
\* before the next line for which Ends holds.
SectionLines(lines, h, Ends(_)) ==
  LET stops == {j \in (h + 1)..Len(lines) : Ends(lines[j])}
      e == IF stops = {} THEN Len(lines) + 1 ELSE Least(stops)
  IN  (h + 1)..(e - 1)

SameOrHigherLevel(line) == HeadingLevel(line) \in 1..3

AnyHeading(line) == startswith(strip(line), <<"#">>)

\* The bulleted lines of the severity section, the section running to the
\* next heading of its level or of a higher one.
BulletedLines(text, sev) ==
  LET lines == split_lines(text)
      h == HeadingLine(lines, SeverityHeading(sev))
  IN  IF h = 0 THEN 0
      ELSE Cardinality({i \in SectionLines(lines, h, SameOrHigherLevel) :
                          IsBulleted(lines[i])})

\* The severity section has its heading and no line that is not blank before
\* the next heading.
EmptyBody(text, sev) ==
  LET lines == split_lines(text)
      h == HeadingLine(lines, SeverityHeading(sev))
  IN  /\ h # 0
      /\ \A i \in SectionLines(lines, h, AnyHeading) : strip(lines[i]) = <<>>

\* C1: a request whose code is empty or only whitespace, to either endpoint,
\* has no completion call made for it, ends with status 400 and is never
\* answered with status 500.
C1_BlankCodeIsRejected ==
  \A r \in Requests :
    (pc[r] # "unsent" /\ OnlyWhitespace(request[r].code)) =>
      /\ calls[r] = 0
      /\ pc[r] \in {"queued", "done"}
      /\ response[r].status # 500
      /\ pc[r] = "done" => response[r].status = 400

C1_Witness ==
  \E r1, r2 \in Requests :
    /\ pc[r1] = "done" /\ request[r1].endpoint = "review"
    /\ request[r1].code = <<>> /\ response[r1].status = 400
    /\ pc[r2] = "done" /\ request[r2].endpoint = "rewrite"
    /\ request[r2].code # <<>> /\ OnlyWhitespace(request[r2].code)
    /\ response[r2].status = 400

\* C2: when all four severity headings are there, each with at least one
\* bulleted line in its section, issues_found is the number of bulleted lines
\* of the four sections, a section running from its heading to the next
\* heading of the same or a higher level.
C2_IssuesAreTheBulletedLines ==
  \A r \in Requests :
    (Reviewed(r) /\ \A sev \in Severities : BulletedLines(TextOf(r), sev) >= 1) =>
      BodyOf(r).issues_found =
        BulletedLines(TextOf(r), "critical") + BulletedLines(TextOf(r), "high")
          + BulletedLines(TextOf(r), "medium") + BulletedLines(TextOf(r), "low")

\* C3: a severity heading with an empty body (no line that is not blank before
\* the next heading or the end of the text) counts exactly 1, whatever follows
\* the next heading.
C3_EmptyBodyCountsOne ==
  \A r \in Requests : \A sev \in Severities :
    (Reviewed(r) /\ EmptyBody(TextOf(r), sev)) =>
      BodyOf(r).severity_breakdown[sev] = 1

\* C10: a severity whose heading occurs nowhere in the review counts 0, one
\* whose heading occurs counts at least 1, and no count is negative.
C10_CountFollowsHeading ==
  \A r \in Requests : \A sev \in Severities :
    Reviewed(r) =>
      LET n == BodyOf(r).severity_breakdown[sev]
      IN  /\ n >= 0
          /\ ~Occurs(TextOf(r), SeverityHeading(sev)) => n = 0
          /\ Occurs(TextOf(r), SeverityHeading(sev)) => n >= 1

C10_Witness ==
  \E r \in Requests :
    /\ Reviewed(r)
    /\ ~Occurs(TextOf(r), CriticalHeading)
    /\ BodyOf(r).severity_breakdown["critical"] = 0
    /\ EmptyBody(TextOf(r), "high")
    /\ BodyOf(r).severity_breakdown["high"] = 1
    /\ BodyOf(r).severity_breakdown["low"] = 2

\* The pieces of the suggestions section after its list markers: what follows
\* each marker, the text before the first marker left out.
Fragments(text) ==
  LET items == suggestion_items(text)
  IN  IF items = <<>> THEN <<>> ELSE Tail(items)

Qualifies(fragment) == Len(strip(fragment)) > 20

\* The description a qualifying fragment is returned as.
Described(fragment) ==
  IF Len(strip(fragment)) > 200
  THEN SubSeq(strip(fragment), 1, 200) \o <<".", ".", ".">>
  ELSE strip(fragment)

\* C7: the suggestions are the first min(n, 10) qualifying fragments of the
\* suggestions section in their order, n being their number; a fragment
\* qualifies when its trimmed length is more than 20; the text before the first
\* marker is left out; a fragment of more than 200 characters is cut to its
\* first 200 and an ellipsis, so no description is longer than 203.
C7_SuggestionsAreTheFirstQualifying ==
  \A r \in Requests :
    Reviewed(r) =>
      LET qualifying == SelectSeq(Fragments(TextOf(r)), Qualifies)
          suggestions == BodyOf(r).suggestions
      IN  /\ Len(suggestions) = Min(Len(qualifying), 10)
          /\ \A i \in 1..Len(suggestions) :
               /\ suggestions[i].description = Described(qualifying[i])
               /\ Len(suggestions[i].description) <= 203

C7_Witness ==
  \E r \in Requests :
    /\ Reviewed(r)
    /\ Len(SelectSeq(Fragments(TextOf(r)), Qualifies)) > 10
    /\ Len(BodyOf(r).suggestions) = 10
    /\ \E i \in 1..Len(Fragments(TextOf(r))) : Len(strip(Fragments(TextOf(r))[i])) = 20
    /\ \E i \in 1..Len(Fragments(TextOf(r))) : Len(strip(Fragments(TextOf(r))[i])) = 21
    /\ \E i \in 1..10 : Len(BodyOf(r).suggestions[i].description) = 203
    /\ \E i \in 1..10 : Len(BodyOf(r).suggestions[i].description) = 200

\* Where the code fences of the text stand, in order.
FencePositions(text) == {i \in 1..Len(text) : MatchAt(text, Fence, i)}

NthFence(text, n) ==
  CHOOSE i \in FencePositions(text) :
    Cardinality({j \in FencePositions(text) : j <= i}) = n

\* A fenced block opens at fence p with the tag and closes at fence q: the
\* tag and a newline follow p, a newline of its own precedes q.
IsBlock(text, p, q, tag) ==
  /\ MatchAt(text, tag \o <<NL>>, p + 3)
  /\ q - 1 > p + 3 + Len(tag)
  /\ text[q - 1] = NL

BlockBody(text, p, q, tag) == SubSeq(text, p + 4 + Len(tag), q - 2)

\* The text holds two fenced blocks, neither tagged, and nothing else fenced.
TwoUntaggedBlocks(text) ==
  /\ Cardinality(FencePositions(text)) = 4
  /\ IsBlock(text, NthFence(text, 1), NthFence(text, 2), <<>>)
  /\ IsBlock(text, NthFence(text, 3), NthFence(text, 4), <<>>)

FirstBody(text) == BlockBody(text, NthFence(text, 1), NthFence(text, 2), <<>>)

SecondBody(text) == BlockBody(text, NthFence(text, 3), NthFence(text, 4), <<>>)

\* The fence at p is on the line right after a Rewritten Code heading.
UnderHeading(text, p) ==
  MatchAt(text, RewrittenCodeHeading \o <<NL>>, p - Len(RewrittenCodeHeading) - 1)

\* C4 as stated: of two fenced blocks with no tag, the rewritten code is the
\* body of the longer, whichever comes first (here for two bodies that are
\* not blank).
C4_LongerBlockIsExtracted ==
  \A r \in Requests :
    (/\ Rewritten(r) /\ TwoUntaggedBlocks(TextOf(r))
     /\ strip(FirstBody(TextOf(r))) # <<>> /\ strip(SecondBody(TextOf(r))) # <<>>) =>
      /\ Len(FirstBody(TextOf(r))) > Len(SecondBody(TextOf(r))) =>
           BodyOf(r).rewritten_code = strip(FirstBody(TextOf(r)))
      /\ Len(SecondBody(TextOf(r))) > Len(FirstBody(TextOf(r))) =>
           BodyOf(r).rewritten_code = strip(SecondBody(TextOf(r)))

\* C4 as amended: of two fenced blocks with no tag, the rewritten code is the
\* trimmed body of the first when that is not blank, whichever is longer.
\* When the first body is blank, it is the trimmed body of the second if that
\* is not blank and either stands right under the Rewritten Code heading (the
\* first block not standing under one) or is longer than the first body; and
\* otherwise the could-not-extract notice followed by the whole text.
C4_FirstBlockIsExtracted ==
  \A r \in Requests :
    (Rewritten(r) /\ TwoUntaggedBlocks(TextOf(r))) =>
      LET text == TextOf(r)
          first == FirstBody(text)
          second == SecondBody(text)
          reached == \/ /\ UnderHeading(text, NthFence(text, 3))
                        /\ ~UnderHeading(text, NthFence(text, 1))
                     \/ Len(second) > Len(first)
      IN  BodyOf(r).rewritten_code =
            IF strip(first) # <<>> THEN strip(first)
            ELSE IF strip(second) # <<>> /\ reached THEN strip(second)
            ELSE CouldNotExtract \o text

C4_Witness ==
  \E r \in Requests :
    /\ Rewritten(r)
    /\ TwoUntaggedBlocks(TextOf(r))
    /\ strip(FirstBody(TextOf(r))) # <<>>
    /\ Len(strip(SecondBody(TextOf(r)))) > Len(FirstBody(TextOf(r)))
    /\ BodyOf(r).rewritten_code = strip(FirstBody(TextOf(r)))

\* The text holds one fenced block, tagged python, and nothing else fenced.
OnePythonBlock(text) ==
  /\ Cardinality(FencePositions(text)) = 2
  /\ IsBlock(text, NthFence(text, 1), NthFence(text, 2), <<"p", "y", "t", "h", "o", "n">>)

PythonBody(text) ==
  BlockBody(text, NthFence(text, 1), NthFence(text, 2), <<"p", "y", "t", "h", "o", "n">>)

\* C8: of exactly one fenced block, tagged python, the rewritten code is the
\* body, trimmed, for every body, the empty and the blank one included.
C8_PythonBlockIsExtracted ==
  \A r \in Requests :
    (Rewritten(r) /\ OnePythonBlock(TextOf(r))) =>
      BodyOf(r).rewritten_code = strip(PythonBody(TextOf(r)))

\* The line is bullet-marked: after its leading whitespace, "- ".
IsDashBullet(line) == MatchAt(line, <<"-", " ">>, SkipWS(line, 1))

\* What follows the marker of a bullet-marked line, trimmed.
BulletContent(line) == strip(SubSeq(line, SkipWS(line, 1) + 2, Len(line)))

\* The bullet-marked lines between the Key Improvements heading and the next
\* heading, trimmed, those left empty dropped.
ImprovementBullets(text) ==
  LET lines == split_lines(text)
      h == HeadingLine(lines, ImprovementsHeading)
      marked(line) == IsDashBullet(line) /\ BulletContent(line) # <<>>
      section == IF h = 0 THEN <<>>
                 ELSE LET in == SectionLines(lines, h, AnyHeading)
                      IN  [i \in 1..Cardinality(in) |-> lines[h + i]]
      kept == SelectSeq(section, marked)
  IN  [i \in 1..Len(kept) |-> BulletContent(kept[i])]

\* C9: the improvements are the bullet-marked lines between the Key
\* Improvements heading and the next heading, at most the first 5 in order;
\* with no such line they are the 4 default strings; so they are between 1
\* and 5.
C9_ImprovementsAreTheBullets ==
  \A r \in Requests :
    Rewritten(r) =>
      LET bullets == ImprovementBullets(TextOf(r))
      IN  /\ BodyOf(r).improvements =
               IF bullets = <<>> THEN DefaultImprovements
               ELSE SubSeq(bullets, 1, Min(5, Len(bullets)))
          /\ Len(BodyOf(r).improvements) \in 1..5

\* The completion call of r failed: it raised.
CallFailed(r) == completion[r].error \in UpstreamErrors

\* C5: a request whose code is not blank has exactly one completion call made
\* for it; when the call fails the request ends with status 500 and the
\* call's message, with no second call and no result.
C5_OneCallNoRetry ==
  \A r \in Requests :
    (pc[r] # "unsent" /\ ~OnlyWhitespace(request[r].code)) =>
      /\ calls[r] <= 1
      /\ pc[r] \in {"calling", "returned", "done"} => calls[r] = 1
      /\ (pc[r] = "done" /\ CallFailed(r)) =>
           /\ response[r].status = 500
           /\ response[r].body = <<>>
           /\ response[r].detail[2] = completion[r].error

C5_Witness ==
  \E r1, r2 \in Requests :
    /\ pc[r1] = "done" /\ request[r1].endpoint = "review" /\ CallFailed(r1)
    /\ calls[r1] = 1 /\ response[r1].status = 500
    /\ pc[r2] = "done" /\ request[r2].endpoint = "rewrite" /\ CallFailed(r2)
    /\ calls[r2] = 1 /\ response[r2].status = 500

\* C6: while a request waits on its completion call, another request that
\* has been posted can start, before that call has returned.
C6_OthersStartDuringCall ==
  \A r1, r2 \in Requests :
    (r1 # r2 /\ pc[r1] = "calling" /\ pc[r2] = "queued") =>
      ENABLED (review_code_begin(r2) \/ rewrite_code_begin(r2))

====
